---- MODULE Spec2Model ----
(***************************************************************************)
(* The Chandy-Lamport snapshot servers of schedule.go (package             *)
(* chandy_lamport) and the task scheduler of the same file.                *)
(*                                                                         *)
(* Servers exchange TokenMessages and MarkerMessages over unidirectional   *)
(* FIFO links.  The simulator that owns the servers, allocates snapshot    *)
(* ids, pops link queues and calls HandlePacket is not part of the source  *)
(* file; its steps (Deliver, TriggerSnapshot) follow the interface the     *)
(* specification describes for the delivery collaborator.                  *)
(*                                                                         *)
(* Spec runs HandlePacket as one step per delivered event.  SpecConc runs  *)
(* it one read or write at a time, so that invocations arriving on         *)
(* different inbound links of one server overlap.                          *)
(* SpecRing is the ring A->B->C->A with one token sent by A, and           *)
(* SpecRingFair adds the eventual delivery of every queued event.          *)
(*                                                                         *)
(* The same source file holds the scheduler of package mapreduce:          *)
(* Master.schedule and Master.dispatchWorker.  SpecSchedule runs one       *)
(* phase, goroutine step by goroutine step; SpecScheduleFair adds the      *)
(* fairness of the Go scheduler and the return of every DoTask call.       *)
(***************************************************************************)
EXTENDS Integers, Sequences, FiniteSets, TLC

\* --------------------------------------------------------------- bounds
MaxSnapshots == 2   \* snapshot ids handed out by the simulator: 0 .. MaxSnapshots-1
MaxSends     == 1   \* successful SendTokens calls in one run
MaxAmount    == 2   \* numTokens passed to SendTokens ranges over 0 .. MaxAmount
MaxTasks     == 2   \* ntasks of a phase ranges over 0 .. MaxTasks

Servers == {"A", "B", "C"}
Ids     == 0 .. (MaxSnapshots - 1)
Amounts == 0 .. MaxAmount
Tasks   == 0 .. (MaxTasks - 1)

\* The workers that may register with the master.
Workers == {"w1", "w2"}

\* A dispatchWorker goroutine that schedule has not started yet.
NotStarted == [pc |-> "none", worker |-> "none"]

\* NewServer(id, tokens, sim): the balances the servers are created with.
InitialTokens == [s \in Servers |-> IF s = "A" THEN 2 ELSE 1]

\* The sets of servers a simulation may be created with.
ServerSets == {{"A", "B"}, {"A", "B", "C"}}

\* The AddOutboundLink(server, dest) calls the topology is built from.  Every
\* subset is a topology: a two-way pair, a server with two inbound links,
\* servers with no inbound or no outbound link, and the self call.
LinkCalls == {<<"A", "B">>, <<"B", "A">>, <<"C", "B">>, <<"A", "A">>}

VARIABLES
    servers,         \* ids of the servers created with NewServer
    Tokens,          \* Server.Tokens, per server id
    outboundLinks,   \* Server.outboundLinks: per server, dest id -> *Link
    inboundLinks,    \* Server.inboundLinks: per server, src id -> *Link
    links,           \* the Link objects: *Link -> [src, dest, events]
    snapshots,       \* Server.snapshots: per server, snapshotId -> Snapshot
    nextSnapshotId,  \* the simulator's next snapshot id
    sends,           \* number of SendTokens calls that returned
    fatal,           \* "none", or which log.Fatalf ended the process
    notified,        \* calls of sim.NotifySnapshotComplete(server, id)
    installs,        \* calls of snapshots.Store(id, ..) per server
    sentMarkers,     \* SentMessageEvent{src, dest, MarkerMessage{id}} recorded
    markerDelivered, \* per link <<src, dest>>: ids whose marker was delivered
    handlers,        \* per link: the HandlePacket invocation running for it
    base,            \* the state when the running invocations began to overlap
    batch,           \* the invocations begun since then: <<src, dest, message>>
    ntasks,          \* schedule: number of tasks of the phase
    nextTask,        \* schedule: the loop variable task
    workerGroup,     \* schedule: counter of the sync.WaitGroup
    returned,        \* schedule(phase) has returned
    dispatchers,     \* per task: position and worker of its dispatchWorker goroutine
    registerChannel, \* workers whose registration is blocked sending on mr.registerChannel
    registered,      \* workers that have registered with the master
    reliable,        \* workers whose DoTask never fails
    succeeded,       \* per task: DoTask calls that returned true
    signalled        \* per task: calls of wg.Done()

vars == <<servers, Tokens, outboundLinks, inboundLinks, links, snapshots, nextSnapshotId,
          sends, fatal, notified, installs, sentMarkers, markerDelivered,
          handlers, base, batch,
          ntasks, nextTask, workerGroup, returned, dispatchers, registerChannel,
          registered, reliable, succeeded, signalled>>

\* The state of the master's scheduler.
scheduler == <<ntasks, nextTask, workerGroup, returned, dispatchers, registerChannel,
               registered, reliable, succeeded, signalled>>

\* The state of the HandlePacket invocations that run step by step.
invocations == <<handlers, base, batch>>

topology == <<servers, outboundLinks, inboundLinks>>

\* ------------------------------------------------------------ helpers
RECURSIVE SumOver(_, _)
SumOver(S, f) ==
    IF S = {} THEN 0
    ELSE LET x == CHOOSE y \in S : TRUE IN f[x] + SumOver(S \ {x}, f)

RECURSIVE SumSeq(_)
SumSeq(q) == IF q = <<>> THEN 0 ELSE Head(q) + SumSeq(Tail(q))

Range(f) == {f[x] : x \in DOMAIN f}

Pairs == Servers \X Servers

\* Message values
\* sentAfter is not a field of the Go message: it records the snapshot ids
\* the sender had already captured when it sent the tokens.
TokenMessage(n, captured) == [type |-> "token", numTokens |-> n, sentAfter |-> captured]
MarkerMessage(k) == [type |-> "marker", snapshotId |-> k]

\* The address of the Link object AddOutboundLink allocates for (src, dest).
NewLink(src, dest) == <<src, dest>>

\* The part of the state HandlePacket, StartSnapshot and SendToNeighbors act on.
World == [Tokens |-> Tokens, links |-> links, snapshots |-> snapshots,
          notified |-> notified, installs |-> installs, sentMarkers |-> sentMarkers]

\* link.events.Push(SendMessageEvent{src, dest, message, receiveTime})
Push(W, l, message) ==
    [W EXCEPT !.links[l].events =
        Append(@, [src |-> W.links[l].src, dest |-> W.links[l].dest, message |-> message])]


EmptyMap == [x \in {} |-> {}]

\* m with key k set to v (a Go map assignment, a SyncMap Store)
MapPut(m, k, v) == [x \in (DOMAIN m) \cup {k} |-> IF x = k THEN v ELSE m[x]]

\* ----------------------------------------------------------- operations

\* Variant of SendToNeighbors: the message is put at the head of the queues.
SendToNeighborsAtHead(W, server, message) ==
    LET out == Range(outboundLinks[server])
        W1  == [W EXCEPT !.sentMarkers =
                   [p \in Pairs |->
                      IF message.type = "marker"
                         /\ \E l \in out : p = <<server, W.links[l].dest>>
                      THEN [@[p] EXCEPT ![message.snapshotId] = @ + 1]
                      ELSE @[p]]]
    IN [W1 EXCEPT !.links =
          [l \in DOMAIN W.links |->
             IF l \in out
             THEN [W.links[l] EXCEPT !.events =
                     <<[src |-> server, dest |-> W.links[l].dest,
                        message |-> message]>> \o @]
             ELSE W.links[l]]]

\* Send a message on all of the server's outbound links.  The links are
\* distinct objects, so the order of the loop over the sorted keys does not
\* show in the result.
SendToNeighbors(W, server, message) ==
    LET out == Range(outboundLinks[server])
        W1  == [W EXCEPT !.sentMarkers =
                   [p \in Pairs |->
                      IF message.type = "marker"
                         /\ \E l \in out : p = <<server, W.links[l].dest>>
                      THEN [@[p] EXCEPT ![message.snapshotId] = @ + 1]
                      ELSE @[p]]]
    IN [W1 EXCEPT !.links =
          [l \in DOMAIN W.links |->
             IF l \in out
             THEN [W.links[l] EXCEPT !.events =
                     Append(@, [src |-> server, dest |-> W.links[l].dest,
                                message |-> message])]
             ELSE W.links[l]]]

\* Variant of NewSnapshot: the balance is not written into serverTokens.
NewSnapshotNoBalance(server, snapshotId, tokens) ==
    LET serverTokens  == [x \in {server} |-> 0]
        snapshotState == [id |-> snapshotId, tokens |-> serverTokens, messages |-> <<>>]
    IN [state |-> snapshotState, receivedMarkers |-> {}]

\* The Snapshot that StartSnapshot builds from the balance it has read.
NewSnapshot(server, snapshotId, tokens) ==
    LET serverTokens  == [x \in {server} |-> tokens]
        snapshotState == [id |-> snapshotId, tokens |-> serverTokens, messages |-> <<>>]
    IN [state |-> snapshotState, receivedMarkers |-> {}]

\* Variant of StartSnapshot: the record is stored but no marker is sent.
StartSnapshotNoMarkers(W, server, snapshotId) ==
    LET snapshot == NewSnapshot(server, snapshotId, W.Tokens[server])
    IN [W EXCEPT !.snapshots[server] = MapPut(@, snapshotId, snapshot),
                 !.installs[server][snapshotId] = @ + 1]

\* Start the chandy-lamport snapshot algorithm on this server.
StartSnapshot(W, server, snapshotId) ==
    LET snapshot == NewSnapshot(server, snapshotId, W.Tokens[server])
        W1 == [W EXCEPT !.snapshots[server] = MapPut(@, snapshotId, snapshot),
                        !.installs[server][snapshotId] = @ + 1]
    IN SendToNeighbors(W1, server, MarkerMessage(snapshotId))

\* Variants of ShouldRecord: every token is recorded; a token is recorded
\* only while no marker at all has arrived.
ShouldRecordAlways(snapshot, src) == TRUE
ShouldRecordNoMarkerYet(snapshot, src) == snapshot.receivedMarkers = {}

\* A token from src is recorded in a snapshot that has no marker from src yet.
ShouldRecord(snapshot, src) == src \notin snapshot.receivedMarkers

\* Variant of HandleToken: the delivered tokens are not added to the balance.
HandleTokenNoCredit(W, server, src, message) ==
    LET snapShotMessage == [src |-> src, dest |-> server, message |-> message]
    IN [W EXCEPT !.snapshots[server] =
                    [k \in DOMAIN @ |->
                       IF ShouldRecord(@[k], src)
                       THEN [@[k] EXCEPT !.state.messages = Append(@, snapShotMessage)]
                       ELSE @[k]]]

\* case TokenMessage of HandlePacket
HandleToken(W, server, src, message) ==
    LET snapShotMessage == [src |-> src, dest |-> server, message |-> message]
    IN [W EXCEPT !.Tokens[server] = @ + message.numTokens,
                 !.snapshots[server] =
                    [k \in DOMAIN @ |->
                       IF ShouldRecord(@[k], src)
                       THEN [@[k] EXCEPT !.state.messages = Append(@, snapShotMessage)]
                       ELSE @[k]]]

\* Variant of SnapshotOccurred: every marker starts the snapshot again.
SnapshotOccurredNever(W, server, snapshotID) == FALSE

\* Variant of AllMarkersReceived: completion is reported on every marker.
AnyMarkerReceived(snapshot, server) == Cardinality(snapshot.receivedMarkers) >= 1

\* value, snapshotOccurred := server.snapshots.Load(snapshotID)
SnapshotOccurred(W, server, snapshotID) == snapshotID \in DOMAIN W.snapshots[server]

\* len(snapshot.receivedMarkers) == len(server.inboundLinks)
AllMarkersReceived(snapshot, server) ==
    Cardinality(snapshot.receivedMarkers) = Cardinality(DOMAIN inboundLinks[server])


\* Variant of HandleMarker: after starting the snapshot on the first marker
\* the handler returns without marking the link the marker came on.
HandleMarkerReturnsAfterStart(W, server, src, message) ==
    LET snapshotID == message.snapshotId
        W2 == [W EXCEPT !.snapshots[server][snapshotID].receivedMarkers = @ \cup {src}]
    IN IF ~SnapshotOccurred(W, server, snapshotID)
       THEN StartSnapshot(W, server, snapshotID)
       ELSE IF AllMarkersReceived(W2.snapshots[server][snapshotID], server)
            THEN [W2 EXCEPT !.notified[server][snapshotID] = @ + 1]
            ELSE W2

\* case MarkerMessage of HandlePacket
HandleMarker(W, server, src, message) ==
    LET snapshotID == message.snapshotId
        W1 == IF ~SnapshotOccurred(W, server, snapshotID)
              THEN StartSnapshot(W, server, snapshotID)
              ELSE W
        W2 == [W1 EXCEPT !.snapshots[server][snapshotID].receivedMarkers = @ \cup {src}]
    IN IF AllMarkersReceived(W2.snapshots[server][snapshotID], server)
       THEN [W2 EXCEPT !.notified[server][snapshotID] = @ + 1]
       ELSE W2

\* Callback for when a message is received on this server.
HandlePacket(W, server, src, message) ==
    CASE message.type = "token"  -> HandleToken(W, server, src, message)
      [] message.type = "marker" -> HandleMarker(W, server, src, message)
      [] OTHER -> W

\* No HandlePacket invocation is running on the link.
Idle == [pc |-> "idle", message |-> [type |-> "none"], tmp |-> 0, keys |-> {},
         cur |-> 0, msgs |-> <<>>, orphan |-> <<>>]

Install(W) ==
    /\ Tokens' = W.Tokens
    /\ links' = W.links
    /\ snapshots' = W.snapshots
    /\ notified' = W.notified
    /\ installs' = W.installs
    /\ sentMarkers' = W.sentMarkers

\* No phase is being scheduled.
NoSchedule ==
    /\ ntasks = 0
    /\ nextTask = 0
    /\ workerGroup = 0
    /\ returned = FALSE
    /\ dispatchers = [t \in Tasks |-> NotStarted]
    /\ registerChannel = {}
    /\ registered = {}
    /\ reliable = {}
    /\ succeeded = [t \in Tasks |-> 0]
    /\ signalled = [t \in Tasks |-> 0]

\* Variant of AddOutboundLink: the link is added even when dest is the server.
AddOutboundLinkToSelf(server, dest) ==
    /\ fatal = "none" /\ sends = 0 /\ nextSnapshotId = 0
    /\ server \in servers /\ dest \in servers
    /\ LET l == NewLink(server, dest) IN
       /\ links' = MapPut(links, l, [src |-> server, dest |-> dest, events |-> <<>>])
       /\ outboundLinks' = [outboundLinks EXCEPT ![server] = MapPut(@, dest, l)]
       /\ inboundLinks' = [inboundLinks EXCEPT ![dest] = MapPut(@, server, l)]
    /\ UNCHANGED <<servers, Tokens, snapshots, nextSnapshotId, sends, fatal, notified,
                   installs, sentMarkers, markerDelivered, invocations, scheduler>>

\* Add a unidirectional link to the destination server
AddOutboundLink(server, dest) ==
    /\ fatal = "none" /\ sends = 0 /\ nextSnapshotId = 0
    /\ server \in servers /\ dest \in servers
    /\ IF server = dest
       THEN UNCHANGED <<links, outboundLinks, inboundLinks>>
       ELSE LET l == NewLink(server, dest) IN
            /\ links' = MapPut(links, l, [src |-> server, dest |-> dest, events |-> <<>>])
            /\ outboundLinks' = [outboundLinks EXCEPT ![server] = MapPut(@, dest, l)]
            /\ inboundLinks' = [inboundLinks EXCEPT ![dest] = MapPut(@, server, l)]
    /\ UNCHANGED <<servers, Tokens, snapshots, nextSnapshotId, sends, fatal, notified,
                   installs, sentMarkers, markerDelivered, invocations, scheduler>>

\* Variant of InsufficientTokens: the balance check is off by one.
InsufficientTokensOffByOne(server, numTokens) == Tokens[server] + 1 < numTokens

\* server.Tokens < numTokens
InsufficientTokens(server, numTokens) == Tokens[server] < numTokens

\* Variant of SendTokens: the balance is updated before the balance check.
SendTokensDecrementFirst(server, numTokens, dest) ==
    /\ fatal = "none" /\ sends < MaxSends
    /\ Tokens' = [Tokens EXCEPT ![server] = @ - numTokens]
    /\ IF InsufficientTokens(server, numTokens)
       THEN /\ fatal' = "insufficient_tokens"
            /\ UNCHANGED <<links, sends>>
       ELSE IF dest \notin DOMAIN outboundLinks[server]
            THEN /\ fatal' = "unknown_dest"
                 /\ UNCHANGED <<links, sends>>
            ELSE /\ links' = Push(World, outboundLinks[server][dest],
                                  TokenMessage(numTokens, DOMAIN snapshots[server])).links
                 /\ sends' = sends + 1
                 /\ UNCHANGED fatal
    /\ UNCHANGED <<topology, snapshots, nextSnapshotId, notified, installs,
                   sentMarkers, markerDelivered, invocations, scheduler>>

\* Send a number of tokens to a neighbor attached to this server
SendTokens(server, numTokens, dest) ==
    /\ fatal = "none" /\ sends < MaxSends
    /\ IF InsufficientTokens(server, numTokens)
       THEN /\ fatal' = "insufficient_tokens"
            /\ UNCHANGED <<Tokens, links, sends>>
       ELSE /\ Tokens' = [Tokens EXCEPT ![server] = @ - numTokens]
            /\ IF dest \notin DOMAIN outboundLinks[server]
               THEN /\ fatal' = "unknown_dest"
                    /\ UNCHANGED <<links, sends>>
               ELSE /\ links' = Push(World, outboundLinks[server][dest],
                                     TokenMessage(numTokens, DOMAIN snapshots[server])).links
                    /\ sends' = sends + 1
                    /\ UNCHANGED fatal
    /\ UNCHANGED <<topology, snapshots, nextSnapshotId, notified, installs,
                   sentMarkers, markerDelivered, invocations, scheduler>>

\* The simulator starts a snapshot on a server under a fresh id.
TriggerSnapshot(server) ==
    /\ fatal = "none" /\ nextSnapshotId < MaxSnapshots
    /\ Install(StartSnapshot(World, server, nextSnapshotId))
    /\ nextSnapshotId' = nextSnapshotId + 1
    /\ UNCHANGED <<topology, sends, fatal, markerDelivered, invocations, scheduler>>

\* The simulator pops the head of one link's queue and hands it to the
\* destination server.
Deliver(l) ==
    /\ fatal = "none"
    /\ l \in DOMAIN links
    /\ links[l].events # <<>>
    /\ LET e  == Head(links[l].events)
           W0 == [World EXCEPT !.links[l].events = Tail(@)]
       IN /\ Install(HandlePacket(W0, e.dest, e.src, e.message))
          /\ markerDelivered' =
                IF e.message.type = "marker"
                THEN [markerDelivered EXCEPT ![<<e.src, e.dest>>] = @ \cup {e.message.snapshotId}]
                ELSE markerDelivered
    /\ UNCHANGED <<topology, nextSnapshotId, sends, fatal, invocations, scheduler>>

Init ==
    /\ servers \in ServerSets
    /\ Tokens = InitialTokens
    /\ outboundLinks = [s \in Servers |-> EmptyMap]
    /\ inboundLinks = [s \in Servers |-> EmptyMap]
    /\ links = EmptyMap
    /\ snapshots = [s \in Servers |-> EmptyMap]
    /\ nextSnapshotId = 0
    /\ sends = 0
    /\ fatal = "none"
    /\ notified = [s \in Servers |-> [k \in Ids |-> 0]]
    /\ installs = [s \in Servers |-> [k \in Ids |-> 0]]
    /\ sentMarkers = [p \in Pairs |-> [k \in Ids |-> 0]]
    /\ markerDelivered = [p \in Pairs |-> {}]
    /\ handlers = [p \in Pairs |-> Idle]
    /\ base = <<>>
    /\ batch = <<>>
    /\ NoSchedule

Next ==
    \/ \E c \in LinkCalls : AddOutboundLink(c[1], c[2])
    \/ \E s \in servers, n \in Amounts, d \in Servers : SendTokens(s, n, d)
    \/ \E s \in servers : TriggerSnapshot(s)
    \/ \E l \in Pairs : Deliver(l)

Spec == Init /\ [][Next]_vars



\* ------------------------------------------------ overlapping HandlePacket
\* HandlePacket taken one read or write at a time, one invocation per
\* inbound link, so that invocations for the same server can overlap.
\* Server.Tokens, Snapshot.state.messages and Snapshot.receivedMarkers are
\* plain fields; the snapshot table is a SyncMap whose Load and Store are
\* atomic and whose Range holds the table's read lock while it iterates.

Active(l) == handlers[l].pc # "idle"

ActiveLinks == {l \in Pairs : Active(l)}

\* The invocation on link l is alone with the invocations for its server.
Quiet(server) == \A l \in ActiveLinks : l[2] # server

\* A Range over the server's snapshot table is in progress on another link.
RangeInProgress(server, l) ==
    \E m \in ActiveLinks : m # l /\ m[2] = server /\ handlers[m].pc \in {"range", "append"}

frame == <<topology, nextSnapshotId, sends, fatal, scheduler>>

\* The invocation on link l moves on; the overlap ends with the last
\* invocation that returns.
Continue(l, h) ==
    /\ handlers' = [handlers EXCEPT ![l] = h]
    /\ UNCHANGED <<base, batch>>

Return(l) ==
    /\ handlers' = [handlers EXCEPT ![l] = Idle]
    /\ IF ActiveLinks = {l}
       THEN base' = <<>> /\ batch' = <<>>
       ELSE UNCHANGED <<base, batch>>

\* The simulator pops the head of link l and calls HandlePacket (line 164);
\* the type switch (line 168) selects the case.
HBegin(l) ==
    /\ fatal = "none"
    /\ l \in DOMAIN links /\ links[l].events # <<>>
    /\ ~Active(l)
    /\ \A m \in ActiveLinks : m[2] = l[2]
    /\ ActiveLinks # {} => \A i \in 1 .. Len(batch) : batch[i].src # l[1]
    /\ LET e == Head(links[l].events) IN
       /\ links' = [links EXCEPT ![l].events = Tail(@)]
       /\ handlers' = [handlers EXCEPT ![l] =
             [Idle EXCEPT !.message = e.message,
                          !.pc = IF e.message.type = "token" THEN "readTokens" ELSE "load"]]
       /\ base' = IF ActiveLinks = {} THEN <<World>> ELSE base
       /\ batch' = IF ActiveLinks = {} THEN <<e>> ELSE Append(batch, e)
       /\ markerDelivered' =
             IF e.message.type = "marker"
             THEN [markerDelivered EXCEPT ![<<e.src, e.dest>>] = @ \cup {e.message.snapshotId}]
             ELSE markerDelivered
    /\ UNCHANGED <<frame, Tokens, snapshots, notified, installs, sentMarkers>>

\* server.Tokens += numTokens (line 177): the read
HReadTokens(l) ==
    /\ fatal = "none" /\ handlers[l].pc = "readTokens"
    /\ Continue(l, [handlers[l] EXCEPT !.tmp = Tokens[l[2]], !.pc = "writeTokens"])
    /\ UNCHANGED <<frame, Tokens, links, snapshots, notified, installs, sentMarkers,
                   markerDelivered>>

\* server.Tokens += numTokens (line 177): the write; then Range begins (line 180)
HWriteTokens(l) ==
    /\ fatal = "none" /\ handlers[l].pc = "writeTokens"
    /\ Tokens' = [Tokens EXCEPT ![l[2]] = handlers[l].tmp + handlers[l].message.numTokens]
    /\ Continue(l, [handlers[l] EXCEPT !.keys = DOMAIN snapshots[l[2]], !.pc = "range"])
    /\ UNCHANGED <<frame, links, snapshots, notified, installs, sentMarkers, markerDelivered>>

\* The Range callback on the next entry (lines 181-183): the marker test and
\* the read of snapshot.state.messages; Range returns after the last entry.
HRange(l) ==
    /\ fatal = "none" /\ handlers[l].pc = "range"
    /\ IF handlers[l].keys = {}
       THEN Return(l)
       ELSE \E k \in handlers[l].keys :
              IF ShouldRecord(snapshots[l[2]][k], l[1])
              THEN Continue(l, [handlers[l] EXCEPT
                                  !.cur = k, !.pc = "append",
                                  !.msgs = snapshots[l[2]][k].state.messages])
              ELSE Continue(l, [handlers[l] EXCEPT !.keys = @ \ {k}])
    /\ UNCHANGED <<frame, Tokens, links, snapshots, notified, installs, sentMarkers,
                   markerDelivered>>

\* snapshot.state.messages = append(.., &snapShotMessage) (line 183): the write
HAppend(l) ==
    /\ fatal = "none" /\ handlers[l].pc = "append"
    /\ snapshots' = [snapshots EXCEPT ![l[2]][handlers[l].cur].state.messages =
                       Append(handlers[l].msgs,
                              [src |-> l[1], dest |-> l[2], message |-> handlers[l].message])]
    /\ Continue(l, [handlers[l] EXCEPT !.keys = @ \ {handlers[l].cur}, !.pc = "range"])
    /\ UNCHANGED <<frame, Tokens, links, notified, installs, sentMarkers, markerDelivered>>

\* value, snapshotOccurred := server.snapshots.Load(snapshotID) (lines 194-196)
HLoad(l) ==
    /\ fatal = "none" /\ handlers[l].pc = "load"
    /\ Continue(l, [handlers[l] EXCEPT !.pc =
          IF SnapshotOccurred(World, l[2], handlers[l].message.snapshotId)
          THEN "mark" ELSE "capture"])
    /\ UNCHANGED <<frame, Tokens, links, snapshots, notified, installs, sentMarkers,
                   markerDelivered>>

\* StartSnapshot: serverTokens[server.Id] = server.Tokens (line 217)
HCapture(l) ==
    /\ fatal = "none" /\ handlers[l].pc = "capture"
    /\ Continue(l, [handlers[l] EXCEPT !.tmp = Tokens[l[2]], !.pc = "store"])
    /\ UNCHANGED <<frame, Tokens, links, snapshots, notified, installs, sentMarkers,
                   markerDelivered>>

\* StartSnapshot: server.snapshots.Store(snapshotId, &snapshot) (line 225).
\* An invocation that holds a pointer to the record that was stored before
\* keeps that record, which is no longer in the table.
HStore(l) ==
    /\ fatal = "none" /\ handlers[l].pc = "store"
    /\ ~RangeInProgress(l[2], l)
    /\ LET k == handlers[l].message.snapshotId IN
       /\ snapshots' = [snapshots EXCEPT ![l[2]] =
                          MapPut(@, k, NewSnapshot(l[2], k, handlers[l].tmp))]
       /\ installs' = [installs EXCEPT ![l[2]][k] = @ + 1]
       /\ handlers' = [m \in Pairs |->
             IF m = l THEN [handlers[l] EXCEPT !.pc = "sendMarkers"]
             ELSE IF /\ m[2] = l[2]
                     /\ handlers[m].pc \in {"mark", "check"}
                     /\ handlers[m].message.snapshotId = k
                     /\ handlers[m].orphan = <<>>
                  THEN [handlers[m] EXCEPT !.orphan = <<snapshots[l[2]][k]>>]
                  ELSE handlers[m]]
    /\ UNCHANGED <<frame, base, batch, Tokens, links, notified, sentMarkers, markerDelivered>>

\* StartSnapshot: server.SendToNeighbors(MarkerMessage{snapshotId}) (line 228)
HSendMarkers(l) ==
    /\ fatal = "none" /\ handlers[l].pc = "sendMarkers"
    /\ LET W == SendToNeighbors(World, l[2], MarkerMessage(handlers[l].message.snapshotId)) IN
       /\ links' = W.links
       /\ sentMarkers' = W.sentMarkers
    /\ Continue(l, [handlers[l] EXCEPT !.pc = "reload"])
    /\ UNCHANGED <<frame, Tokens, snapshots, notified, installs, markerDelivered>>

\* value, _ = server.snapshots.Load(snapshotID) (line 199)
HReload(l) ==
    /\ fatal = "none" /\ handlers[l].pc = "reload"
    /\ Continue(l, [handlers[l] EXCEPT !.pc = "mark"])
    /\ UNCHANGED <<frame, Tokens, links, snapshots, notified, installs, sentMarkers,
                   markerDelivered>>

\* snapshot.receivedMarkers[src] = true (line 203)
HMark(l) ==
    /\ fatal = "none" /\ handlers[l].pc = "mark"
    /\ IF handlers[l].orphan = <<>>
       THEN /\ snapshots' = [snapshots EXCEPT
                  ![l[2]][handlers[l].message.snapshotId].receivedMarkers = @ \cup {l[1]}]
            /\ Continue(l, [handlers[l] EXCEPT !.pc = "check"])
       ELSE /\ Continue(l, [handlers[l] EXCEPT
                  !.orphan[1].receivedMarkers = @ \cup {l[1]}, !.pc = "check"])
            /\ UNCHANGED snapshots
    /\ UNCHANGED <<frame, Tokens, links, notified, installs, sentMarkers, markerDelivered>>

\* if len(snapshot.receivedMarkers) == len(server.inboundLinks) { Notify } (204-206)
HCheck(l) ==
    /\ fatal = "none" /\ handlers[l].pc = "check"
    /\ LET k == handlers[l].message.snapshotId
           snapshot == IF handlers[l].orphan = <<>>
                       THEN snapshots[l[2]][k] ELSE handlers[l].orphan[1]
       IN notified' = IF AllMarkersReceived(snapshot, l[2])
                      THEN [notified EXCEPT ![l[2]][k] = @ + 1]
                      ELSE notified
    /\ Return(l)
    /\ UNCHANGED <<frame, Tokens, links, snapshots, installs, sentMarkers, markerDelivered>>

\* The simulator starts a snapshot on a server no invocation is running for.
QuietTriggerSnapshot(server) == Quiet(server) /\ TriggerSnapshot(server)

\* ------------------------------------------------------- ring scenario
\* The ring A->B->C->A with the balances A=10, B=0, C=0.
RingLinks == {<<"A", "B">>, <<"B", "C">>, <<"C", "A">>}

RingTokens == [s \in Servers |-> IF s = "A" THEN 10 ELSE 0]

\* The state after NewServer for A, B, C and AddOutboundLink for the ring.
InitRing ==
    /\ servers = Servers
    /\ Tokens = RingTokens
    /\ outboundLinks = [s \in Servers |->
          [d \in {x \in Servers : <<s, x>> \in RingLinks} |-> NewLink(s, d)]]
    /\ inboundLinks = [d \in Servers |->
          [s \in {x \in Servers : <<x, d>> \in RingLinks} |-> NewLink(s, d)]]
    /\ links = [l \in RingLinks |-> [src |-> l[1], dest |-> l[2], events |-> <<>>]]
    /\ snapshots = [s \in Servers |-> EmptyMap]
    /\ nextSnapshotId = 0
    /\ sends = 0
    /\ fatal = "none"
    /\ notified = [s \in Servers |-> [k \in Ids |-> 0]]
    /\ installs = [s \in Servers |-> [k \in Ids |-> 0]]
    /\ sentMarkers = [p \in Pairs |-> [k \in Ids |-> 0]]
    /\ markerDelivered = [p \in Pairs |-> {}]
    /\ handlers = [p \in Pairs |-> Idle]
    /\ base = <<>>
    /\ batch = <<>>
    /\ NoSchedule

\* A sends 3 tokens to B, once, before or after snapshots are started.
RingSend == sends = 0 /\ SendTokens("A", 3, "B")

NextRing ==
    \/ RingSend
    \/ \E s \in servers : TriggerSnapshot(s)
    \/ \E l \in Pairs : Deliver(l)

SpecRing == InitRing /\ [][NextRing]_vars

\* Links are reliable: the head of every non-empty queue is eventually
\* delivered.
SpecRingFair == SpecRing /\ \A l \in RingLinks : WF_vars(Deliver(l))

\* ------------------------------------------------ scheduler (mapreduce)
\* Master.schedule starts one dispatchWorker goroutine per task and waits
\* for the WaitGroup.  A dispatchWorker goroutine is at "receive" (blocked
\* on <-mr.registerChannel), "call" (its DoTask RPC is running), "ok" (the
\* call returned true), "handback" (blocked on mr.registerChannel <- worker)
\* or "exit".  mr.registerChannel is unbuffered: a send completes only
\* together with a receive.

\* The state of the servers while a phase is scheduled: none exists.
NoServers ==
    /\ servers = {}
    /\ Tokens = InitialTokens
    /\ outboundLinks = [s \in Servers |-> EmptyMap]
    /\ inboundLinks = [s \in Servers |-> EmptyMap]
    /\ links = EmptyMap
    /\ snapshots = [s \in Servers |-> EmptyMap]
    /\ nextSnapshotId = 0
    /\ sends = 0
    /\ fatal = "none"
    /\ notified = [s \in Servers |-> [k \in Ids |-> 0]]
    /\ installs = [s \in Servers |-> [k \in Ids |-> 0]]
    /\ sentMarkers = [p \in Pairs |-> [k \in Ids |-> 0]]
    /\ markerDelivered = [p \in Pairs |-> {}]
    /\ handlers = [p \in Pairs |-> Idle]
    /\ base = <<>>
    /\ batch = <<>>

snapshotServers == <<servers, Tokens, outboundLinks, inboundLinks, links, snapshots,
                     nextSnapshotId, sends, fatal, notified, installs, sentMarkers,
                     markerDelivered, handlers, base, batch>>

\* A worker registers: the master starts a goroutine that sends the worker's
\* address on mr.registerChannel.
Register(worker) ==
    /\ worker \notin registered
    /\ registered' = registered \cup {worker}
    /\ registerChannel' = registerChannel \cup {worker}
    /\ UNCHANGED <<ntasks, nextTask, workerGroup, returned, dispatchers, reliable,
                   succeeded, signalled, snapshotServers>>

\* schedule: one iteration of the loop over the tasks.
Spawn ==
    /\ ~returned
    /\ nextTask < ntasks
    /\ workerGroup' = workerGroup + 1
    /\ dispatchers' = [dispatchers EXCEPT ![nextTask] = [pc |-> "receive", worker |-> "none"]]
    /\ nextTask' = nextTask + 1
    /\ UNCHANGED <<ntasks, returned, registerChannel, registered, reliable,
                   succeeded, signalled, snapshotServers>>

\* schedule: workerGroup.Wait() returns and so does schedule.
Wait ==
    /\ ~returned
    /\ nextTask = ntasks
    /\ workerGroup = 0
    /\ returned' = TRUE
    /\ UNCHANGED <<ntasks, nextTask, workerGroup, dispatchers, registerChannel, registered,
                   reliable, succeeded, signalled, snapshotServers>>

\* Variant of ReceiveRegistered: the worker stays on offer on the channel
\* while the task uses it.
ReceiveRegisteredStillOffered(task, worker) ==
    /\ dispatchers[task].pc = "receive"
    /\ worker \in registerChannel
    /\ dispatchers' = [dispatchers EXCEPT ![task] = [pc |-> "call", worker |-> worker]]
    /\ UNCHANGED <<ntasks, nextTask, workerGroup, returned, registerChannel, registered,
                   reliable, succeeded, signalled, snapshotServers>>

\* dispatchWorker: worker := <-mr.registerChannel, the sender being the
\* goroutine of a registration.
ReceiveRegistered(task, worker) ==
    /\ dispatchers[task].pc = "receive"
    /\ worker \in registerChannel
    /\ registerChannel' = registerChannel \ {worker}
    /\ dispatchers' = [dispatchers EXCEPT ![task] = [pc |-> "call", worker |-> worker]]
    /\ UNCHANGED <<ntasks, nextTask, workerGroup, returned, registered, reliable,
                   succeeded, signalled, snapshotServers>>

\* dispatchWorker: worker := <-mr.registerChannel, the sender being the
\* dispatchWorker of another task at mr.registerChannel <- worker, which
\* then leaves its loop.
ReceiveHandedBack(task, from) ==
    /\ dispatchers[task].pc = "receive"
    /\ dispatchers[from].pc = "handback"
    /\ dispatchers' = [dispatchers EXCEPT
          ![task] = [pc |-> "call", worker |-> dispatchers[from].worker],
          ![from] = [pc |-> "exit", worker |-> "none"]]
    /\ UNCHANGED <<ntasks, nextTask, workerGroup, returned, registerChannel, registered,
                   reliable, succeeded, signalled, snapshotServers>>

\* dispatchWorker: call(worker, "Worker.DoTask", ..) returns true.
DoTaskOk(task) ==
    /\ dispatchers[task].pc = "call"
    /\ dispatchers' = [dispatchers EXCEPT ![task].pc = "ok"]
    /\ succeeded' = [succeeded EXCEPT ![task] = @ + 1]
    /\ UNCHANGED <<ntasks, nextTask, workerGroup, returned, registerChannel, registered,
                   reliable, signalled, snapshotServers>>

\* Variant of DoTaskFails: the failed call signals the WaitGroup as well.
DoTaskFailsSignals(task) ==
    /\ dispatchers[task].pc = "call"
    /\ dispatchers[task].worker \notin reliable
    /\ workerGroup' = workerGroup - 1
    /\ signalled' = [signalled EXCEPT ![task] = @ + 1]
    /\ dispatchers' = [dispatchers EXCEPT ![task] = [pc |-> "receive", worker |-> "none"]]
    /\ UNCHANGED <<ntasks, nextTask, returned, registerChannel, registered,
                   reliable, succeeded, snapshotServers>>

\* dispatchWorker: call(worker, "Worker.DoTask", ..) returns false; the loop
\* starts over and the worker is not used again.
DoTaskFails(task) ==
    /\ dispatchers[task].pc = "call"
    /\ dispatchers[task].worker \notin reliable
    /\ dispatchers' = [dispatchers EXCEPT ![task] = [pc |-> "receive", worker |-> "none"]]
    /\ UNCHANGED <<ntasks, nextTask, workerGroup, returned, registerChannel, registered,
                   reliable, succeeded, signalled, snapshotServers>>

\* Variant of Done: the worker is handed back before wg.Done() is called, so
\* the call waits for another task to receive the worker.
DoneAfterHandBack(task) ==
    /\ dispatchers[task].pc = "ok"
    /\ \E to \in Tasks :
          /\ dispatchers[to].pc = "receive"
          /\ dispatchers' = [dispatchers EXCEPT
                ![to] = [pc |-> "call", worker |-> dispatchers[task].worker],
                ![task] = [pc |-> "exit", worker |-> "none"]]
    /\ workerGroup' = workerGroup - 1
    /\ signalled' = [signalled EXCEPT ![task] = @ + 1]
    /\ UNCHANGED <<ntasks, nextTask, returned, registerChannel, registered,
                   reliable, succeeded, snapshotServers>>

\* dispatchWorker: wg.Done() after a successful call; the goroutine then
\* blocks on mr.registerChannel <- worker.
Done(task) ==
    /\ dispatchers[task].pc = "ok"
    /\ workerGroup' = workerGroup - 1
    /\ signalled' = [signalled EXCEPT ![task] = @ + 1]
    /\ dispatchers' = [dispatchers EXCEPT ![task].pc = "handback"]
    /\ UNCHANGED <<ntasks, nextTask, returned, registerChannel, registered,
                   reliable, succeeded, snapshotServers>>

\* schedule(phase) is called with ntasks tasks; no worker has registered yet.
InitSchedule ==
    /\ NoServers
    /\ ntasks \in 0 .. MaxTasks
    /\ reliable \in SUBSET Workers
    /\ nextTask = 0
    /\ workerGroup = 0
    /\ returned = FALSE
    /\ dispatchers = [t \in Tasks |-> NotStarted]
    /\ registerChannel = {}
    /\ registered = {}
    /\ succeeded = [t \in Tasks |-> 0]
    /\ signalled = [t \in Tasks |-> 0]

NextSchedule ==
    \/ \E w \in Workers : Register(w)
    \/ Spawn
    \/ Wait
    \/ \E t \in Tasks, w \in Workers : ReceiveRegistered(t, w)
    \/ \E t, u \in Tasks : ReceiveHandedBack(t, u)
    \/ \E t \in Tasks : DoTaskOk(t)
    \/ \E t \in Tasks : DoTaskFails(t)
    \/ \E t \in Tasks : Done(t)

SpecSchedule == InitSchedule /\ [][NextSchedule]_vars

\* dispatchWorker: worker := <-mr.registerChannel with any sender.
Receive(task) ==
    \/ \E w \in Workers : ReceiveRegistered(task, w)
    \/ \E u \in Tasks : ReceiveHandedBack(task, u)

\* dispatchWorker: call(worker, "Worker.DoTask", ..) returns.
DoTaskReturns(task) == DoTaskOk(task) \/ DoTaskFails(task)

\* Goroutines that can run do run: schedule's loop and Wait, a receive for
\* which a sender is waiting, a return of wg.Done(); and every DoTask call
\* returns.  Nothing makes a worker register.
SpecScheduleFair ==
    /\ SpecSchedule
    /\ WF_vars(Spawn)
    /\ WF_vars(Wait)
    /\ \A t \in Tasks : WF_vars(Receive(t))
    /\ \A t \in Tasks : WF_vars(DoTaskReturns(t))
    /\ \A t \in Tasks : WF_vars(Done(t))

\* The topology C->A, C->B, A->B.  InitConc is the state after it is built
\* and A and C have each sent one token to B (two SendTokens calls returned).
ConcLinks == {<<"C", "A">>, <<"C", "B">>, <<"A", "B">>}

InitConc ==
    /\ servers = Servers
    /\ Tokens = [s \in Servers |-> IF s = "B" THEN InitialTokens[s] ELSE InitialTokens[s] - 1]
    /\ outboundLinks = [s \in Servers |->
          [d \in {x \in Servers : <<s, x>> \in ConcLinks} |-> NewLink(s, d)]]
    /\ inboundLinks = [d \in Servers |->
          [s \in {x \in Servers : <<x, d>> \in ConcLinks} |-> NewLink(s, d)]]
    /\ links = [l \in ConcLinks |->
          [src |-> l[1], dest |-> l[2],
           events |-> IF l[2] = "B"
                      THEN <<[src |-> l[1], dest |-> l[2], message |-> TokenMessage(1, {})]>>
                      ELSE <<>>]]
    /\ snapshots = [s \in Servers |-> EmptyMap]
    /\ nextSnapshotId = 0
    /\ sends = 2
    /\ fatal = "none"
    /\ notified = [s \in Servers |-> [k \in Ids |-> 0]]
    /\ installs = [s \in Servers |-> [k \in Ids |-> 0]]
    /\ sentMarkers = [p \in Pairs |-> [k \in Ids |-> 0]]
    /\ markerDelivered = [p \in Pairs |-> {}]
    /\ handlers = [p \in Pairs |-> Idle]
    /\ base = <<>>
    /\ batch = <<>>
    /\ NoSchedule

NextConc ==
    \/ \E s \in servers : QuietTriggerSnapshot(s)
    \/ \E l \in Pairs : HBegin(l)
    \/ \E l \in Pairs : HReadTokens(l)
    \/ \E l \in Pairs : HWriteTokens(l)
    \/ \E l \in Pairs : HRange(l)
    \/ \E l \in Pairs : HAppend(l)
    \/ \E l \in Pairs : HLoad(l)
    \/ \E l \in Pairs : HCapture(l)
    \/ \E l \in Pairs : HStore(l)
    \/ \E l \in Pairs : HSendMarkers(l)
    \/ \E l \in Pairs : HReload(l)
    \/ \E l \in Pairs : HMark(l)
    \/ \E l \in Pairs : HCheck(l)

SpecConc == InitConc /\ [][NextConc]_vars

\* ------------------------------------------------------------ properties

\* The total number of tokens fixed at initialization.
TotalTokens == SumOver(servers, InitialTokens)

\* Amounts of the TokenMessage events queued on link l
QueuedAmounts(l) ==
    SumSeq([i \in 1 .. Len(links[l].events) |->
              IF links[l].events[i].message.type = "token"
              THEN links[l].events[i].message.numTokens ELSE 0])

\* Amounts of the messages recorded in a snapshot
RecordedAmounts(snapshot) ==
    SumSeq([i \in 1 .. Len(snapshot.state.messages) |->
              snapshot.state.messages[i].message.numTokens])

Complete(s, k) == notified[s][k] >= 1

AllComplete(k) == \A s \in servers : Complete(s, k)

\* C1 Snapshot conservation: for every snapshot id for which every server
\* has notified completion, the captured balances of all servers plus the
\* amounts of all recorded in-flight messages add up to the initial total.
SnapshotConservation ==
    \A k \in Ids :
        AllComplete(k) =>
            SumOver(servers, [s \in servers |-> snapshots[s][k].state.tokens[s]])
              + SumOver(servers, [s \in servers |-> RecordedAmounts(snapshots[s][k])])
              = TotalTokens

\* Two snapshots are complete on every server and one token message with a
\* positive amount was recorded in both of them, so both were open when it
\* arrived.
SnapshotConservationWitness ==
    /\ AllComplete(0) /\ AllComplete(1)
    /\ \E s \in servers :
          /\ RecordedAmounts(snapshots[s][0]) > 0
          /\ RecordedAmounts(snapshots[s][1]) > 0

\* C2 Token conservation: while no fatal error has ended the run, the
\* balances of all servers plus the amounts of the TokenMessages queued on
\* the links add up to the initial total.
TokenConservation ==
    fatal = "none" =>
        SumOver(servers, Tokens)
          + SumOver(DOMAIN links, [l \in DOMAIN links |-> QueuedAmounts(l)])
          = TotalTokens

\* SendTokens, StartSnapshot and HandlePacket have all acted: a token was
\* sent and delivered, and a snapshot was started.
TokenConservationWitness ==
    /\ fatal = "none" /\ sends >= 1
    /\ \E s \in servers : Tokens[s] > InitialTokens[s]
    /\ \E s \in servers : DOMAIN snapshots[s] # {}

\* The step delivers a TokenMessage at the head of link l.
TokenDelivery(l) ==
    /\ l \in DOMAIN links
    /\ links[l].events # <<>>
    /\ Head(links[l].events).message.type = "token"
    /\ Deliver(l)

\* The step appended the message at the head of link l to the record of
\* its destination for snapshot k.
RecordedFor(l, k) ==
    LET e == Head(links[l].events)
        s == e.dest
    IN /\ k \in DOMAIN snapshots[s]
       /\ k \in DOMAIN snapshots'[s]
       /\ snapshots'[s][k].state.messages
            = Append(snapshots[s][k].state.messages,
                     [src |-> e.src, dest |-> s, message |-> e.message])

\* The step left the recorded messages of the destination of link l for
\* snapshot k as they were.
NotRecordedFor(l, k) ==
    LET s == Head(links[l].events).dest
    IN IF k \in DOMAIN snapshots[s]
       THEN /\ k \in DOMAIN snapshots'[s]
            /\ snapshots'[s][k].state.messages = snapshots[s][k].state.messages
       ELSE k \notin DOMAIN snapshots'[s]

\* C3 Channel-boundary correctness: a TokenMessage delivered to S on link L
\* is appended to S's record for snapshot k if and only if the record
\* exists at delivery time and the marker for k has not been delivered on L;
\* otherwise the recorded messages for k do not change.
ChannelBoundary ==
    [][\A l \in Pairs : TokenDelivery(l) =>
          \A k \in Ids :
             LET open == /\ k \in DOMAIN snapshots[l[2]]
                         /\ k \notin markerDelivered[l]
             IN /\ open => RecordedFor(l, k)
                /\ ~open => NotRecordedFor(l, k)]_vars

\* A server with two inbound links holds a record with a recorded token
\* from one link and the marker of the other link.
ChannelBoundaryWitness ==
    \E s \in servers : \E k \in DOMAIN snapshots[s] :
        /\ Cardinality(DOMAIN inboundLinks[s]) = 2
        /\ Len(snapshots[s][k].state.messages) > 0
        /\ \E src \in snapshots[s][k].receivedMarkers :
              src # snapshots[s][k].state.messages[1].src

\* C4 At-most-once completion: NotifySnapshotComplete is called at most
\* once for every server and snapshot id.
AtMostOnceCompletion ==
    \A s \in servers : \A k \in Ids : notified[s][k] <= 1

\* A server with two inbound links has received both markers and notified.
AtMostOnceCompletionWitness ==
    \E s \in servers : \E k \in DOMAIN snapshots[s] :
        /\ Cardinality(snapshots[s][k].receivedMarkers) = 2
        /\ notified[s][k] = 1

\* C5 Completion iff quorum: a server that holds a record for k has
\* notified completion for k exactly if the record's receivedMarkers has as
\* many entries as the server has inbound links.
CompletionIffQuorum ==
    \A s \in servers : \A k \in DOMAIN snapshots[s] :
        Complete(s, k) <=> AllMarkersReceived(snapshots[s][k], s)

\* The record of server s for snapshot k keeps its captured local state.
LocalStateKept(s, k) ==
    k \in DOMAIN snapshots[s] =>
        /\ k \in DOMAIN snapshots'[s]
        /\ snapshots'[s][k].state.tokens = snapshots[s][k].state.tokens

\* Markers server s has pushed for snapshot k on the link to d: one on each
\* outbound link once the record exists, none otherwise.
MarkersPushedOnce(s, d, k) ==
    sentMarkers[<<s, d>>][k] =
        IF k \in DOMAIN snapshots[s] /\ d \in DOMAIN outboundLinks[s] THEN 1 ELSE 0

\* C6 Single creation: every server installs its record for a snapshot id
\* at most once, the captured local state of a record is never overwritten,
\* and the server pushes exactly one marker for the id on each outbound link.
SingleCreation ==
    /\ [](\A s \in Servers : \A k \in Ids :
            /\ installs[s][k] <= 1
            /\ installs[s][k] = 1 <=> k \in DOMAIN snapshots[s]
            /\ \A d \in Servers : MarkersPushedOnce(s, d, k))
    /\ [][\A s \in Servers : \A k \in Ids : LocalStateKept(s, k)]_vars

\* A server with an outbound link created its record on the first marker
\* and has since received a second marker for the same id.
SingleCreationWitness ==
    \E s \in servers : \E k \in DOMAIN snapshots[s] :
        /\ Cardinality(snapshots[s][k].receivedMarkers) = 2
        /\ DOMAIN outboundLinks[s] # {}
        /\ installs[s][k] = 1

\* C8 Non-negative balance: every server's Tokens is >= 0.
NonNegativeBalance == \A s \in servers : Tokens[s] >= 0

\* A server has sent its whole balance.
NonNegativeBalanceWitness ==
    /\ fatal = "none" /\ sends >= 1
    /\ \E s \in servers : Tokens[s] = 0 /\ InitialTokens[s] > 0

\* C9 Insufficient balance is fatal and has no effect: SendTokens with
\* numTokens > Tokens ends in the fatal outcome, leaves Tokens unchanged and
\* enqueues no event on any link.
InsufficientIsFatal ==
    [][\A s \in Servers, n \in Amounts, d \in Servers :
          (n > Tokens[s] /\ SendTokens(s, n, d)) =>
              /\ fatal' # "none"
              /\ Tokens' = Tokens
              /\ links' = links]_vars

\* The run ended in the insufficient-balance fatal error.
InsufficientIsFatalWitness == fatal = "insufficient_tokens"

\* C10 Unknown destination is fatal and has no effect: SendTokens with
\* numTokens <= Tokens and dest not an outbound neighbour ends in the fatal
\* outcome with Tokens unchanged and no event enqueued.
UnknownDestHasNoEffect ==
    [][\A s \in Servers, n \in Amounts, d \in Servers :
          (n <= Tokens[s] /\ d \notin DOMAIN outboundLinks[s] /\ SendTokens(s, n, d)) =>
              /\ fatal' # "none"
              /\ Tokens' = Tokens
              /\ links' = links]_vars


\* What the claim compares of a server: its balance, its snapshot table and
\* the number of times each record was installed.
ServerState(W, server) ==
    [Tokens |-> W.Tokens[server], snapshots |-> W.snapshots[server],
     installs |-> W.installs[server]]

\* The invocations of a batch run one after the other, in the order given.
RECURSIVE RunSerially(_, _)
RunSerially(W, invs) ==
    IF invs = <<>> THEN W
    ELSE RunSerially(HandlePacket(W, Head(invs).dest, Head(invs).src, Head(invs).message),
                     Tail(invs))

\* The orders in which the invocations of the batch can run one at a time.
SerialOrders ==
    IF Len(batch) = 2 THEN {batch, <<batch[2], batch[1]>>} ELSE {batch}

\* C7 Concurrent deliveries are serializable: when the last of the
\* overlapping HandlePacket invocations on a server returns, the server's
\* balance, snapshot records and install counts are those of running the
\* invocations one at a time in some order from the state they began in.
Serializable ==
    [][\A l \in Pairs :
          (ActiveLinks = {l} /\ handlers'[l].pc = "idle") =>
              \E order \in SerialOrders :
                  ServerState([Tokens |-> Tokens', snapshots |-> snapshots',
                               installs |-> installs'], l[2])
                    = ServerState(RunSerially(base[1], order), l[2])]_vars

\* ---------------------------------------------------------------- C11
\* The Link objects that go from src to dest.
LinksOf(src, dest) == {l \in DOMAIN links : links[l].src = src /\ links[l].dest = dest}

\* The pair (src, dest) is linked by one object, held by both maps.
LinkedOnce(src, dest) ==
    /\ dest \in DOMAIN outboundLinks[src]
    /\ src \in DOMAIN inboundLinks[dest]
    /\ outboundLinks[src][dest] = inboundLinks[dest][src]
    /\ LinksOf(src, dest) = {outboundLinks[src][dest]}

\* C11 AddOutboundLink from a server to itself changes neither its outbound
\* nor its inbound map, no server ever has a link to itself, a pair is in the
\* outbound map of its source exactly when it is in the inbound map of its
\* destination, and every call for a pair of distinct servers, the first or
\* a repeated one, leaves exactly one link object for the pair, the same in
\* both maps.
IdempotentTopology ==
    /\ [](\A s, d \in Servers :
            /\ s \notin DOMAIN outboundLinks[s] /\ s \notin DOMAIN inboundLinks[s]
            /\ (d \in DOMAIN outboundLinks[s]) <=> (s \in DOMAIN inboundLinks[d])
            /\ (d \in DOMAIN outboundLinks[s]) => LinkedOnce(s, d))
    /\ [][\A s, d \in Servers :
            AddOutboundLink(s, d) =>
                IF s = d
                THEN outboundLinks' = outboundLinks /\ inboundLinks' = inboundLinks
                ELSE LinkedOnce(s, d)']_vars

\* A and B are linked both ways and A has no link to itself.
IdempotentTopologyWitness ==
    /\ LinkedOnce("A", "B") /\ LinkedOnce("B", "A")
    /\ "A" \notin DOMAIN outboundLinks["A"]

\* ---------------------------------------------------------------- C12
RingTotal == SumOver(Servers, RingTokens)

\* The balance B captured for snapshot k.
RingCaptured(k) == snapshots["B"][k].state.tokens["B"]

\* The amounts B recorded for snapshot k as in flight on the link from A.
RingInFlight(k) ==
    LET messages == snapshots["B"][k].state.messages IN
    SumSeq([i \in 1 .. Len(messages) |->
              IF messages[i].src = "A" THEN messages[i].message.numTokens ELSE 0])

\* A captured its balance for snapshot k after it sent the 3 tokens.
RingSentBefore(k) == snapshots["A"][k].state.tokens["A"] = RingTokens["A"] - 3

\* C12 Ring scenario: on the ring A->B->C->A with balances 10, 0, 0, where A
\* sends 3 tokens to B, in every delivery order the balances plus the queued
\* tokens stay 10, every snapshot that is complete on A, B and C adds up to
\* 10, and every such snapshot that A captured after sending holds the 3
\* tokens exactly once: in the balance B captured or as in flight from A to
\* B.
RingScenario ==
    /\ fatal = "none"
    /\ SumOver(Servers, Tokens)
         + SumOver(DOMAIN links, [l \in DOMAIN links |-> QueuedAmounts(l)]) = RingTotal
    /\ \A k \in Ids :
          AllComplete(k) =>
            /\ SumOver(Servers, [s \in Servers |-> snapshots[s][k].state.tokens[s]])
                 + SumOver(Servers, [s \in Servers |-> RecordedAmounts(snapshots[s][k])])
                 = RingTotal
            /\ RingSentBefore(k) =>
                  \/ RingCaptured(k) = 3 /\ RingInFlight(k) = 0
                  \/ RingCaptured(k) = 0 /\ RingInFlight(k) = 3

\* A sent and then started snapshot 0, which is complete with the 3 tokens
\* in B's captured balance; snapshot 1, which B started while the tokens
\* were still queued, is complete with the 3 tokens recorded as in flight.
RingScenarioWitness ==
    /\ AllComplete(0) /\ AllComplete(1)
    /\ RingSentBefore(0) /\ RingSentBefore(1)
    /\ RingCaptured(0) = 3 /\ RingInFlight(0) = 0
    /\ RingCaptured(1) = 0 /\ RingInFlight(1) = 3

\* ---------------------------------------------------------------- C13
\* The tasks of the phase.
PhaseTasks == 0 .. (ntasks - 1)

\* The worker registered, is not offered on the channel and no dispatcher
\* holds it: a DoTask call on it failed.
Lost(worker) ==
    /\ worker \in registered
    /\ worker \notin registerChannel
    /\ \A t \in Tasks : dispatchers[t].worker # worker

\* C13 Scheduler completion: schedule returns only after every task of the
\* phase had a DoTask call return success; a task signals the wait group at
\* most once, only after a successful call of its own, and exactly once by
\* the time schedule returns; the wait group counts the started tasks that
\* have not signalled.
SchedulerCompletion ==
    /\ \A t \in Tasks : signalled[t] <= 1 /\ signalled[t] <= succeeded[t]
    /\ workerGroup = nextTask - SumOver(Tasks, signalled)
    /\ returned => \A t \in PhaseTasks : succeeded[t] >= 1 /\ signalled[t] = 1

\* schedule returned for the largest phase although a DoTask call had
\* failed and its task was retried.
SchedulerCompletionWitness ==
    /\ returned
    /\ ntasks = MaxTasks
    /\ \E w \in Workers : Lost(w)

\* ---------------------------------------------------------------- C14
\* C14 Complete is terminal and read-only: once a server has notified
\* completion of a snapshot, no later step removes the server's record of it
\* or changes its captured balance, its recorded messages or the set of
\* links whose marker it has received.
CompleteIsTerminal ==
    [][\A s \in Servers, k \in Ids :
          Complete(s, k) =>
            /\ k \in DOMAIN snapshots'[s]
            /\ snapshots'[s][k].state = snapshots[s][k].state
            /\ snapshots'[s][k].receivedMarkers = snapshots[s][k].receivedMarkers
            /\ Complete(s, k)']_vars

\* A server with one inbound link received a token after it completed a
\* snapshot: the token is in its balance and not in the record.
CompleteIsTerminalWitness ==
    \E s \in servers, k \in Ids :
        /\ Complete(s, k)
        /\ Cardinality(DOMAIN inboundLinks[s]) = 1
        /\ snapshots[s][k].state.tokens[s] = InitialTokens[s]
        /\ snapshots[s][k].state.messages = <<>>
        /\ Tokens[s] > InitialTokens[s]

\* ---------------------------------------------------------------- C15
\* The positions in the queue of link l that hold the marker of snapshot k.
MarkerPositions(l, k) ==
    {j \in 1 .. Len(links[l].events) :
        /\ links[l].events[j].message.type = "marker"
        /\ links[l].events[j].message.snapshotId = k}

\* C15 Marker ordering on each outbound link: a TokenMessage that a server
\* sent before it captured its balance for snapshot k is queued ahead of the
\* server's marker for k, which follows it on the link as soon as the server
\* has captured; a TokenMessage sent after the capture is behind the marker:
\* the marker is ahead of it in the queue or was already delivered.
MarkerOrdering ==
    \A l \in DOMAIN links, k \in Ids :
        \A i \in 1 .. Len(links[l].events) :
            LET message == links[l].events[i].message IN
            message.type = "token" =>
                IF k \in message.sentAfter
                THEN /\ \A j \in MarkerPositions(l, k) : j < i
                     /\ k \in markerDelivered[l] \/ MarkerPositions(l, k) # {}
                ELSE /\ \A j \in MarkerPositions(l, k) : j > i
                     /\ k \notin markerDelivered[l]
                     /\ k \in DOMAIN snapshots[links[l].src] => MarkerPositions(l, k) # {}

\* A link holds a token sent before its sender captured for a snapshot,
\* followed by the marker of that snapshot.
MarkerOrderingWitness ==
    \E l \in DOMAIN links, k \in Ids :
        /\ Len(links[l].events) = 2
        /\ links[l].events[1].message.type = "token"
        /\ k \notin links[l].events[1].message.sentAfter
        /\ MarkerPositions(l, k) = {2}
        /\ k \in DOMAIN snapshots[links[l].src]

\* ---------------------------------------------------------------- C16
\* C16 No orphan messages: every TokenMessage a server has recorded for
\* snapshot k was sent before its sender captured its balance for k; a token
\* sent after the sender's capture is in no server's record for k.
NoOrphanMessages ==
    \A s \in Servers, k \in Ids :
        k \in DOMAIN snapshots[s] =>
            \A i \in 1 .. Len(snapshots[s][k].state.messages) :
                LET m == snapshots[s][k].state.messages[i] IN
                /\ m.dest = s
                /\ k \notin m.message.sentAfter

\* A server recorded a token for a snapshot that the token's sender has
\* captured too, after sending it.
NoOrphanMessagesWitness ==
    \E s \in servers, k \in Ids :
        /\ k \in DOMAIN snapshots[s]
        /\ Len(snapshots[s][k].state.messages) = 1
        /\ LET m == snapshots[s][k].state.messages[1] IN
              /\ k \in DOMAIN snapshots[m.src]
              /\ k \notin m.message.sentAfter
              /\ m.message.numTokens > 0

\* ---------------------------------------------------------------- C17
\* The head of link l is the marker of snapshot k and the destination has no
\* record of k.
FirstMarker(l, k) ==
    /\ l \in DOMAIN links
    /\ links[l].events # <<>>
    /\ Head(links[l].events).message = MarkerMessage(k)
    /\ k \notin DOMAIN snapshots[l[2]]

\* The messages of a record that came from src.
RecordedFrom(snapshot, src) ==
    SelectSeq(snapshot.state.messages, LAMBDA m : m.src = src)

\* C17 First marker triggers the local snapshot: the delivery of a marker for
\* snapshot k on link L to a server without a record of k creates the
\* record with the balance the server has at that moment and no messages,
\* puts one marker at the tail of every outbound link and marks L; and once
\* a link is marked in a record, the messages recorded from that link never
\* change, so no token arriving on L is ever recorded for k.
FirstMarkerSnapshot ==
    [][/\ \A l \in Pairs, k \in Ids :
            (FirstMarker(l, k) /\ Deliver(l)) =>
                /\ k \in DOMAIN snapshots'[l[2]]
                /\ snapshots'[l[2]][k].state.tokens = [x \in {l[2]} |-> Tokens[l[2]]]
                /\ snapshots'[l[2]][k].state.messages = <<>>
                /\ snapshots'[l[2]][k].receivedMarkers = {l[1]}
                /\ Tokens' = Tokens
                /\ \A d \in DOMAIN outboundLinks[l[2]] :
                      LET out == outboundLinks[l[2]][d] IN
                      links'[out].events =
                          Append(links[out].events,
                                 [src |-> l[2], dest |-> d, message |-> MarkerMessage(k)])
       /\ \A s \in Servers, k \in Ids :
            k \in DOMAIN snapshots[s] =>
                \A src \in snapshots[s][k].receivedMarkers :
                    /\ k \in DOMAIN snapshots'[s]
                    /\ src \in snapshots'[s][k].receivedMarkers
                    /\ RecordedFrom(snapshots'[s][k], src) = RecordedFrom(snapshots[s][k], src)]_vars

\* A server whose only inbound link comes from the initiator of a snapshot
\* created its record on the initiator's marker and then received a token
\* on the same link: the token is in its balance and not in the record.
FirstMarkerSnapshotWitness ==
    \E s \in servers, src \in servers, k \in Ids :
        /\ k \in DOMAIN snapshots[s] /\ k \in DOMAIN snapshots[src]
        /\ DOMAIN inboundLinks[s] = {src}
        /\ snapshots[s][k].receivedMarkers = {src}
        /\ snapshots[src][k].receivedMarkers = {}
        /\ Tokens[s] > snapshots[s][k].state.tokens[s]
        /\ snapshots[s][k].state.messages = <<>>

\* ---------------------------------------------------------------- C18
\* C18 Snapshot liveness: on the strongly connected ring, with every queued
\* event eventually delivered, once a snapshot has been started on a server
\* every server eventually notifies completion of it, whether or not tokens
\* are sent while it runs.
SnapshotLiveness ==
    \A k \in Ids : (nextSnapshotId > k) ~> AllComplete(k)

\* Every snapshot is complete on every server and a token that was in
\* flight while a snapshot ran is in that snapshot's record.
SnapshotLivenessWitness ==
    /\ \A k \in Ids : AllComplete(k)
    /\ sends = 1
    /\ \E s \in servers, k \in Ids : RecordedAmounts(snapshots[s][k]) > 0

\* ---------------------------------------------------------------- C19
\* C19 Scheduler liveness under worker failure: once a worker that never
\* fails has registered, schedule eventually returns, for every number of
\* tasks and whatever calls on the other workers fail; a task whose call
\* failed is back at the receive and the failed worker is not offered again.
SchedulerLiveness ==
    /\ (reliable \cap registered # {}) ~> returned
    /\ [][\A t \in Tasks, w \in Workers :
            (dispatchers[t].worker = w /\ DoTaskFails(t)) =>
                /\ dispatchers'[t].pc = "receive"
                /\ Lost(w)'
                /\ workerGroup' = workerGroup]_vars

\* schedule returned for the largest phase with a single worker that never
\* fails, after a call on the other worker failed; the dispatcher that
\* finished last is still blocked handing its worker back.
SchedulerLivenessWitness ==
    /\ returned
    /\ ntasks = MaxTasks
    /\ Cardinality(reliable) = 1
    /\ \E w \in Workers \ reliable : Lost(w)
    /\ \E t \in Tasks : dispatchers[t].pc = "handback"

\* ---------------------------------------------------------------- C20
\* The dispatchWorker goroutines that hold the worker.
Holders(worker) == {t \in Tasks : dispatchers[t].worker = worker}

\* C20 Worker exclusivity: a worker is held by at most one dispatchWorker
\* goroutine, and is not on offer on registerChannel while one holds it, so
\* no two DoTask calls run on it at once; a task gets a worker either from
\* the worker's registration or from a dispatcher whose DoTask call on it
\* returned success and which hands it back and leaves.
WorkerExclusivity ==
    /\ [](\A w \in Workers :
            /\ Cardinality(Holders(w)) <= 1
            /\ w \in registerChannel => Holders(w) = {})
    /\ [][\A t \in Tasks, w \in Workers :
            (dispatchers[t].worker # w /\ dispatchers'[t].worker = w) =>
                \/ w \in registerChannel /\ w \notin registerChannel'
                \/ \E u \in Tasks \ {t} :
                      /\ dispatchers[u] = [pc |-> "handback", worker |-> w]
                      /\ succeeded[u] >= 1
                      /\ dispatchers'[u].pc = "exit"]_vars

\* The only registered worker finished one task, was handed back and is
\* running the DoTask call of another task.
WorkerExclusivityWitness ==
    \E t, u \in Tasks :
        /\ dispatchers[t].pc = "call"
        /\ registered = {dispatchers[t].worker}
        /\ dispatchers[u].pc = "exit"
        /\ succeeded[u] = 1
====
